---- MODULE Spec2Model ----
(***************************************************************************)
(* Model of check_sheet.py: the top-level script and get_sheet_data.       *)
(* Every call to the credential loader, the client builder and the         *)
(* spreadsheet service either returns or raises; the script's position,    *)
(* its variables and the lines it prints are the state.                    *)
(***************************************************************************)
EXTENDS Integers, Sequences, FiniteSets, TLC

\* Bounds on the inputs the remote service may return.
MaxSheets == 2
MaxRows == 2

----------------------------------------------------------------------------
\* Strings are sequences of one-character strings, so that containment
\* is computed, character by character, as Python's `in` computes it.

TARGET ==
  <<"P","R","O","M","T"," ","T","e","m","p",":"," ","U","X">>

\* 'PROMT Temp: UX Researсher', with the Cyrillic letter es (U+0441).
DEFAULT_SHEET_NAME ==
  <<"P","R","O","M","T"," ","T","e","m","p",":"," ","U","X",
    " ","R","e","s","e","a","r","U+0441","h","e","r">>

\* 'PROMT Temp: UX Researcher', with the Latin letter c.
ALT_SHEET_NAME ==
  <<"P","R","O","M","T"," ","T","e","m","p",":"," ","U","X",
    " ","R","e","s","e","a","r","c","h","e","r">>

RANGE_NAME == <<"A","1",":","Z","1","0","0">>

SPREADSHEET_ID == <<"10Ro4U_7M0w3bEw_5nunNcy6hTB64oba4q5MAwjNNJPM">>

\* Worksheet titles the listing may return: one without the target, one
\* that starts with it, one that holds it in the middle, and one that
\* differs from it only in the case of a letter.
Sheet1Title == <<"S","h","e","e","t","1">>
MiddleTitle == <<"O","l","d"," ">> \o TARGET
LowerTitle ==
  <<"P","R","O","M","T"," ","t","e","m","p",":"," ","U","X">>

Titles == {Sheet1Title, ALT_SHEET_NAME, MiddleTitle, LowerTitle}

\* Rows the values fetch may return.
Rows == {<<"a","b">>, <<"c","d">>}

SeqsUpTo(S, n) == UNION {[1..k -> S] : k \in 0..n}

TitleLists == SeqsUpTo(Titles, MaxSheets)

ValueLists == SeqsUpTo(Rows, MaxRows)

\* A values response: the 'values' key may be absent.
Results ==
  {[range |-> RANGE_NAME]}
    \cup {[range |-> RANGE_NAME, values |-> v] : v \in ValueLists}

NoResult == [none |-> TRUE]

----------------------------------------------------------------------------
\* `sub in s` on Python strings.
Contains(sub, s) ==
  \E i \in 0..(Len(s) - Len(sub)) : SubSeq(s, i + 1, i + Len(sub)) = sub

\* result.get('values', [])
GetValues(result) ==
  IF "values" \in DOMAIN result THEN result.values ELSE <<>>

\* f"'{sheet_name}'!{range_name}"
RangeArg(sheet_name) == <<"'">> \o sheet_name \o <<"'", "!">> \o RANGE_NAME

\* str(row) for a list of one-character strings: ['a', 'b']
RECURSIVE ReprItems(_)
ReprItems(row) ==
  IF row = <<>> THEN <<>>
  ELSE IF Len(row) = 1 THEN <<"'", row[1], "'">>
  ELSE <<"'", row[1], "'", ",", " ">> \o ReprItems(Tail(row))

ReprRow(row) == <<"[">> \o ReprItems(row) \o <<"]">>

----------------------------------------------------------------------------
\* Printed lines.
Line(kind, text) == [kind |-> kind, text |-> text]

FoundLine(title) == Line("found", title)
WarningLine == Line("warning", <<>>)
AvailableLine == Line("available", <<>>)
TitleLine(title) == Line("title", title)
MarkLine(title) == Line("mark", title)
NoDataLine == Line("nodata", <<>>)
HeaderLine(sheet_name) == Line("header", sheet_name \o <<"!">> \o RANGE_NAME)
RowLine(row) == Line("row", ReprRow(row))
ErrDataLine(step) == Line("errdata", <<step>>)
ErrorLine(step) == Line("error", <<step>>)
TryingLine == Line("trying", <<>>)

----------------------------------------------------------------------------
\* The for/else of the script: the first listed title that contains the
\* target replaces SHEET_NAME; with no such title SHEET_NAME is kept.
RECURSIVE ResolveName_last(_, _)
ResolveName_last(titles, current) ==
  IF titles = <<>> THEN current
  ELSE IF Contains(TARGET, titles[Len(titles)]) THEN titles[Len(titles)]
  ELSE ResolveName_last(SubSeq(titles, 1, Len(titles) - 1), current)

RECURSIVE ResolveName(_, _)
ResolveName(titles, current) ==
  IF titles = <<>> THEN current
  ELSE IF Contains(TARGET, Head(titles)) THEN Head(titles)
  ELSE ResolveName(Tail(titles), current)

\* The for/else with the else taken as an if's: the warning always follows.
RECURSIVE ResolveLines_always_warn(_)
ResolveLines_always_warn(titles) ==
  IF titles = <<>> THEN <<WarningLine>>
  ELSE IF Contains(TARGET, Head(titles))
    THEN <<FoundLine(Head(titles)), WarningLine>>
  ELSE ResolveLines_always_warn(Tail(titles))

\* What that loop prints: the match notice at the break, or the warning
\* in the loop's else.
RECURSIVE ResolveLines(_)
ResolveLines(titles) ==
  IF titles = <<>> THEN <<WarningLine>>
  ELSE IF Contains(TARGET, Head(titles)) THEN <<FoundLine(Head(titles))>>
  ELSE ResolveLines(Tail(titles))

\* The listing loop of get_sheet_data: every title, and a mark under
\* every title that contains the target.
RECURSIVE TitleLines(_)
TitleLines(titles) ==
  IF titles = <<>> THEN <<>>
  ELSE (IF Contains(TARGET, Head(titles))
          THEN <<TitleLine(Head(titles)), MarkLine(Head(titles))>>
          ELSE <<TitleLine(Head(titles))>>)
       \o TitleLines(Tail(titles))

ListingLines(titles) == <<AvailableLine>> \o TitleLines(titles)

\* The report with the emptiness test dropped: the header is always printed.
ReportLines_always_header(values, sheet_name) ==
  <<HeaderLine(sheet_name)>> \o [i \in 1..Len(values) |-> RowLine(values[i])]

\* The report printing the rows last to first.
ReportLines_reversed(values, sheet_name) ==
  IF values = <<>> THEN <<NoDataLine>>
  ELSE <<HeaderLine(sheet_name)>>
         \o [i \in 1..Len(values) |-> RowLine(values[Len(values) + 1 - i])]

\* The report: the notice for no rows, else the header and one line a row.
ReportLines(values, sheet_name) ==
  IF values = <<>> THEN <<NoDataLine>>
  ELSE <<HeaderLine(sheet_name)>>
         \o [i \in 1..Len(values) |-> RowLine(values[i])]

\* A failed fetch is tried again.
OnRaise_retry(attempt, op) ==
  IF op = "fetch" THEN "g_fetch"
  ELSE IF attempt = 1 THEN "handler"
  ELSE "crashed"

\* The fetch is not guarded inside get_sheet_data: its failure reaches the
\* caller like any other.
OnRaise_propagate(attempt, op) ==
  IF attempt = 1 THEN "handler" ELSE "crashed"

\* Where control goes when a call raises.  The try inside get_sheet_data
\* covers the fetch only, and the function then returns to the end of the
\* script; the script's try covers the first call of get_sheet_data only;
\* anything else is uncaught and ends the process.
OnRaise(attempt, op) ==
  IF op = "fetch" THEN "done"
  ELSE IF attempt = 1 THEN "handler"
  ELSE "crashed"

----------------------------------------------------------------------------
VARIABLES
  pc,           \* position in the script
  attempt,      \* 0: top level; 1: first get_sheet_data call; 2: the one in the except
  SHEET_NAME,   \* the script's SHEET_NAME
  spreadsheet,  \* titles of the top-level listing
  sheets,       \* titles of get_sheet_data's listing
  result,       \* the values response of get_sheet_data
  exc,          \* the exception last raised, by the step that raised it
  out,          \* lines printed to standard output
  calls         \* calls made to the credential loader, the builder and the service

vars == <<pc, attempt, SHEET_NAME, spreadsheet, sheets, result, exc, out, calls>>

Call(op, arg, ok) == [op |-> op, attempt |-> attempt, arg |-> arg, ok |-> ok]

Init ==
  /\ pc = "m_creds"
  /\ attempt = 0
  /\ SHEET_NAME = DEFAULT_SHEET_NAME
  /\ spreadsheet = <<>>
  /\ sheets = <<>>
  /\ result = NoResult
  /\ exc = "none"
  /\ out = <<>>
  /\ calls = <<>>

\* service_account.Credentials.from_service_account_file, top level
MainCreds ==
  /\ pc = "m_creds"
  /\ \E ok \in BOOLEAN :
       /\ calls' = Append(calls, Call("creds", <<>>, ok))
       /\ pc' = IF ok THEN "m_build" ELSE OnRaise(attempt, "creds")
       /\ exc' = IF ok THEN exc ELSE "creds"
  /\ UNCHANGED <<attempt, SHEET_NAME, spreadsheet, sheets, result, out>>

\* build('sheets', 'v4', credentials=creds), top level
MainBuild ==
  /\ pc = "m_build"
  /\ \E ok \in BOOLEAN :
       /\ calls' = Append(calls, Call("build", <<>>, ok))
       /\ pc' = IF ok THEN "m_list" ELSE OnRaise(attempt, "build")
       /\ exc' = IF ok THEN exc ELSE "build"
  /\ UNCHANGED <<attempt, SHEET_NAME, spreadsheet, sheets, result, out>>

\* sheet.get(...).execute() at top level, then the for/else that resolves
\* SHEET_NAME, up to the entry of the guarded get_sheet_data call.
MainList ==
  /\ pc = "m_list"
  /\ \/ /\ calls' = Append(calls, Call("list", SPREADSHEET_ID, FALSE))
        /\ pc' = OnRaise(attempt, "list")
        /\ exc' = "list"
        /\ UNCHANGED <<attempt, SHEET_NAME, spreadsheet, out>>
     \/ \E titles \in TitleLists :
          /\ calls' = Append(calls, Call("list", SPREADSHEET_ID, TRUE))
          /\ spreadsheet' = titles
          /\ SHEET_NAME' = ResolveName(titles, SHEET_NAME)
          /\ out' = out \o ResolveLines(titles)
          /\ attempt' = 1
          /\ pc' = "g_creds"
          /\ exc' = exc
  /\ UNCHANGED <<sheets, result>>

\* from_service_account_file inside get_sheet_data
GetCreds ==
  /\ pc = "g_creds"
  /\ \E ok \in BOOLEAN :
       /\ calls' = Append(calls, Call("creds", <<>>, ok))
       /\ pc' = IF ok THEN "g_build" ELSE OnRaise(attempt, "creds")
       /\ exc' = IF ok THEN exc ELSE "creds"
  /\ UNCHANGED <<attempt, SHEET_NAME, spreadsheet, sheets, result, out>>

\* build(...) inside get_sheet_data
GetBuild ==
  /\ pc = "g_build"
  /\ \E ok \in BOOLEAN :
       /\ calls' = Append(calls, Call("build", <<>>, ok))
       /\ pc' = IF ok THEN "g_list" ELSE OnRaise(attempt, "build")
       /\ exc' = IF ok THEN exc ELSE "build"
  /\ UNCHANGED <<attempt, SHEET_NAME, spreadsheet, sheets, result, out>>

\* The listing call skipped inside get_sheet_data.
GetList_skip ==
  /\ pc = "g_list"
  /\ pc' = "g_fetch"
  /\ UNCHANGED <<attempt, SHEET_NAME, spreadsheet, sheets, result, exc, out, calls>>

\* sheet.get(...).execute() inside get_sheet_data, then the printed listing
GetList ==
  /\ pc = "g_list"
  /\ \/ /\ calls' = Append(calls, Call("list", SPREADSHEET_ID, FALSE))
        /\ pc' = OnRaise(attempt, "list")
        /\ exc' = "list"
        /\ UNCHANGED <<sheets, out>>
     \/ \E titles \in TitleLists :
          /\ calls' = Append(calls, Call("list", SPREADSHEET_ID, TRUE))
          /\ sheets' = titles
          /\ out' = out \o ListingLines(titles)
          /\ pc' = "g_fetch"
          /\ exc' = exc
  /\ UNCHANGED <<attempt, SHEET_NAME, spreadsheet, result>>

\* The try of get_sheet_data: the values fetch and the report, or the
\* except's line; then the return.
GetFetch ==
  /\ pc = "g_fetch"
  /\ \/ /\ calls' = Append(calls, Call("fetch", RangeArg(SHEET_NAME), FALSE))
        /\ out' = out \o <<ErrDataLine("fetch")>>
        /\ pc' = OnRaise(attempt, "fetch")
        /\ exc' = "fetch"
        /\ UNCHANGED result
     \/ \E r \in Results :
          /\ calls' = Append(calls, Call("fetch", RangeArg(SHEET_NAME), TRUE))
          /\ result' = r
          /\ out' = out \o ReportLines(GetValues(r), SHEET_NAME)
          /\ pc' = "done"
          /\ exc' = exc
  /\ UNCHANGED <<attempt, SHEET_NAME, spreadsheet, sheets>>

\* The except of the script, up to the entry of the second get_sheet_data call.
Handler ==
  /\ pc = "handler"
  /\ out' = out \o <<ErrorLine(exc), TryingLine>>
  /\ SHEET_NAME' = ALT_SHEET_NAME
  /\ attempt' = 2
  /\ pc' = "g_creds"
  /\ UNCHANGED <<spreadsheet, sheets, result, exc, calls>>

Next ==
  \/ MainCreds
  \/ MainBuild
  \/ MainList
  \/ GetCreds
  \/ GetBuild
  \/ GetList
  \/ GetFetch
  \/ Handler

Spec == Init /\ [][Next]_vars

----------------------------------------------------------------------------
\* Vocabulary of the properties.

Terminated == pc \in {"done", "crashed"}

CallsOf(op) == SelectSeq(calls, LAMBDA c : c.op = op)

Fetches == CallsOf("fetch")

AllCallsOk == \A i \in DOMAIN calls : calls[i].ok

FetchReturned ==
  /\ pc = "done"
  /\ calls # <<>>
  /\ calls[Len(calls)].op = "fetch"
  /\ calls[Len(calls)].ok

Matching(titles) == {k \in DOMAIN titles : Contains(TARGET, titles[k])}

KindsAt(kinds) == {i \in DOMAIN out : out[i].kind \in kinds}

----------------------------------------------------------------------------
\* C1: when the primary values fetch raises, exactly one further fetch is
\* attempted, with the alternate name 'PROMT Temp: UX Researcher', before
\* the run ends.
C1_PrimaryFetchFailureRetriedOnce ==
  (/\ Terminated
   /\ Fetches # <<>>
   /\ Fetches[1].attempt = 1
   /\ ~Fetches[1].ok)
  => /\ Len(Fetches) = 2
     /\ Fetches[2].arg = RangeArg(ALT_SHEET_NAME)

\* C2: whatever succeeds or fails, at most two values fetches are issued.
C2_AtMostTwoFetches == Len(Fetches) <= 2

\* A run that took the fallback after a failure and fetched.
C2_Witness ==
  /\ pc = "done"
  /\ attempt = 2
  /\ ~AllCallsOk
  /\ Len(Fetches) = 1

\* C3: once a credential load or a client build has failed, no listing and
\* no fetch call is made afterwards.
C3_NoServiceCallAfterAuthFailure ==
  \A i, j \in DOMAIN calls :
    (/\ i < j
     /\ calls[i].op \in {"creds", "build"}
     /\ ~calls[i].ok)
    => calls[j].op \notin {"list", "fetch"}

\* C4: the name passed to the primary fetch is the first listed title that
\* contains the target; with no such title it is the default name, the
\* warning has been printed and the run has gone on.
C4_FirstMatchResolved ==
  attempt >= 1 =>
    LET ms == Matching(spreadsheet)
        expected ==
          IF ms = {} THEN DEFAULT_SHEET_NAME
          ELSE spreadsheet[CHOOSE k \in ms : \A j \in ms : k <= j]
    IN /\ attempt = 1 => SHEET_NAME = expected
       /\ \A i \in DOMAIN calls :
            (calls[i].op = "fetch" /\ calls[i].attempt = 1)
            => calls[i].arg = RangeArg(expected)
       /\ ms = {} => out[1] = WarningLine
       /\ calls[Len(calls)] = [op |-> "list", attempt |-> 0,
                               arg |-> SPREADSHEET_ID, ok |-> TRUE]
            => pc = "g_creds"
       /\ ms # {} => out[1] = FoundLine(expected)

\* The primary fetch was made after a listing with two different matches.
C4_Witness ==
  /\ Fetches # <<>>
  /\ Fetches[1].attempt = 1
  /\ Len(spreadsheet) = 2
  /\ Matching(spreadsheet) = {1, 2}
  /\ spreadsheet[1] # spreadsheet[2]

\* C5: any error raised by a listing or a fetch is recovered by one fallback
\* attempt with the alternate worksheet name.
C5_RemoteErrorRecoveredOnce ==
  (/\ Terminated
   /\ \E i \in DOMAIN calls :
        /\ calls[i].op \in {"list", "fetch"}
        /\ calls[i].attempt < 2
        /\ ~calls[i].ok)
  => /\ attempt = 2
     /\ SHEET_NAME = ALT_SHEET_NAME

C7_EmptyPrintsOnlyNotice ==
  (FetchReturned /\ GetValues(result) = <<>>)
  => /\ out[Len(out)] = NoDataLine
     /\ out[Len(out) - 1].kind \in {"available", "title", "mark"}
     /\ KindsAt({"header", "row", "errdata"}) = {}
     /\ KindsAt({"nodata"}) = {Len(out)}

\* A fetch returned a response without the 'values' key.
C7_Witness == FetchReturned /\ "values" \notin DOMAIN result

\* C8: a fetch that returns rows makes the report print, after the header,
\* one line per row, each the row's literal form, in the order returned.
C8_RowsPrintedInOrder ==
  (FetchReturned /\ GetValues(result) # <<>>)
  => LET values == GetValues(result)
         n == Len(values)
         first == Len(out) - n
     IN /\ first >= 1
        /\ out[first] = HeaderLine(SHEET_NAME)
        /\ \A i \in 1..n : out[first + i] = RowLine(values[i])
        /\ KindsAt({"row"}) = (first + 1)..Len(out)
        /\ KindsAt({"nodata", "errdata"}) = {}

\* The fetch returned [['a', 'b'], ['c', 'd']].
C8_Witness ==
  /\ FetchReturned
  /\ GetValues(result) = << <<"a", "b">>, <<"c", "d">> >>

\* C9 as stated: the listing comes first, then one match notice or
\* warning, then the 'no data' notice or the rows.
C9_ListingBeforeNotice ==
  pc = "done" =>
    \E k \in DOMAIN out :
      /\ k > 1
      /\ out[k].kind \in {"found", "warning"}
      /\ KindsAt({"found", "warning"}) = {k}
      /\ \A i \in 1..(k - 1) :
           out[i].kind \in {"available", "title", "mark", "error", "trying"}
      /\ \A i \in (k + 1)..Len(out) : out[i].kind \in {"nodata", "header", "row"}

\* C9 amended: the first line is the one match notice or warning; when the
\* fallback is taken the error line and the retry line come next, before
\* every line of the second attempt; then the listing; then the 'no data'
\* notice, or the header and the rows, or the fetch error line.
C9_NoticeBeforeListing ==
  /\ out # <<>> => out[1].kind \in {"found", "warning"}
  /\ pc = "done" =>
       LET n == Len(out)
           s == IF attempt = 2 THEN 4 ELSE 2
       IN /\ n > s
          /\ KindsAt({"found", "warning"}) = {1}
          /\ out[1].kind = "found" <=> Matching(spreadsheet) # {}
          /\ attempt = 2 => (out[2].kind = "error" /\ out[3].kind = "trying")
          /\ attempt # 2 => KindsAt({"error", "trying"}) = {}
          /\ out[s].kind = "available"
          /\ \E k \in s..(n - 1) :
               /\ \A i \in (s + 1)..k : out[i].kind \in {"title", "mark"}
               /\ \/ k + 1 = n /\ out[n].kind \in {"nodata", "errdata"}
                  \/ /\ k + 1 < n
                     /\ out[k + 1].kind = "header"
                     /\ \A i \in (k + 2)..n : out[i].kind = "row"

\* The fallback was taken and its fetch returned rows.
C9_Witness ==
  /\ FetchReturned
  /\ attempt = 2
  /\ GetValues(result) # <<>>
  /\ sheets # <<>>

\* C10: a failed fetch ends get_sheet_data normally with one 'Error
\* accessing sheet data' line; the script's except is entered only by a
\* failed credential load, build or listing of the first call, and the
\* same failure in the second call ends the process uncaught.
C10_FetchFailureStaysInside ==
  /\ \A i \in DOMAIN calls :
       (calls[i].op = "fetch" /\ ~calls[i].ok)
       => /\ i = Len(calls)
          /\ pc = "done"
          /\ out[Len(out)] = ErrDataLine("fetch")
          /\ KindsAt({"errdata"}) = {Len(out)}
  /\ (pc = "handler" \/ attempt = 2)
       => /\ exc \in {"creds", "build", "list"} \/ pc = "done"
          /\ \E i \in DOMAIN calls :
               /\ calls[i].attempt = 1
               /\ calls[i].op \in {"creds", "build", "list"}
               /\ ~calls[i].ok
               /\ \A j \in 1..i : calls[j].op # "fetch"
  /\ \A i \in DOMAIN calls :
       (calls[i].attempt = 2 /\ calls[i].op # "fetch" /\ ~calls[i].ok)
       => (i = Len(calls) /\ pc = "crashed")

\* The fetch of the first call failed and the script ended without fallback.
C10_Witness ==
  /\ pc = "done"
  /\ attempt = 1
  /\ Fetches # <<>>
  /\ ~Fetches[1].ok

====
